---- MODULE Spec2Model ----
(***************************************************************************)
(* Model of the occule steganography codecs.  Every codec is a pair of     *)
(* pure functions encode/decode; the state machine is a caller that picks  *)
(* a codec and its arguments, calls encode, and decodes either the output  *)
(* of encode or a buffer that never went through encode.                   *)
(*                                                                         *)
(* Integers of the program keep their width: a u64/u32 read from bytes is  *)
(* kept as its little-endian digit sequence ("wide" value), because its    *)
(* value may exceed what the model checker's integers hold.  usize is 64   *)
(* bits.  Lengths of buffers in the model stay far below 2^24.             *)
(***************************************************************************)
EXTENDS Integers, Sequences, FiniteSets, TLC

VARIABLES
    pc,              \* position of the caller: "idle", "encoded", "decoded", "decoded_raw"
    codec,           \* which codec the caller used: "none", "bin", "jpeg", "image", "wav"
    overflow_checks, \* build profile: TRUE = arithmetic overflow panics, FALSE = it wraps
    start_index,     \* JpegSegmentCodec.start_index
    carrier,         \* argument of encode
    payload,         \* argument of encode
    encode_result,   \* Result returned by encode (or a panic)
    decode_input,    \* argument of decode
    decode_result    \* Result returned by decode (or a panic)

vars == <<pc, codec, overflow_checks, start_index, carrier, payload,
          encode_result, decode_input, decode_result>>

----------------------------------------------------------------------------
(* Results of a call *)

None == [tag |-> "None"]
Ok(v) == [tag |-> "Ok", value |-> v]
Err(e) == [tag |-> "Err", error |-> e]
Panic(m) == [tag |-> "Panic", message |-> m]

IsOk(r) == r.tag = "Ok"
IsErr(r) == r.tag = "Err"
IsPanic(r) == r.tag = "Panic"

----------------------------------------------------------------------------
(* Sequences and bytes *)

Reverse(s) == [i \in 1..Len(s) |-> s[Len(s) + 1 - i]]

Min(a, b) == IF a < b THEN a ELSE b

\* All sequences over S of length 0..n
RECURSIVE SeqsUpTo(_, _)
SeqsUpTo(S, n) ==
    IF n = 0 THEN {<<>>}
    ELSE LET shorter == SeqsUpTo(S, n - 1)
         IN  shorter \cup {Append(s, x) : s \in {t \in shorter : Len(t) = n - 1}, x \in S}

\* n.to_le_bytes() for an integer of w bytes (n below 2^31 in the model)
RECURSIVE to_le_bytes(_, _)
to_le_bytes(n, w) ==
    IF w = 0 THEN <<>> ELSE <<n % 256>> \o to_le_bytes(n \div 256, w - 1)

\* A wide value is the little-endian digit sequence of an unsigned integer.
WideIsSmall(d) == \A i \in 4..Len(d) : d[i] = 0
WideToNat(d) ==
    (IF Len(d) >= 1 THEN d[1] ELSE 0)
    + (IF Len(d) >= 2 THEN 256 * d[2] ELSE 0)
    + (IF Len(d) >= 3 THEN 65536 * d[3] ELSE 0)

\* d + k in the width of d: the wrapped digits and whether the sum overflowed
RECURSIVE WideAddFrom(_, _, _)
WideAddFrom(d, k, i) ==
    IF i > Len(d) THEN [digits |-> <<>>, overflow |-> k > 0]
    ELSE LET s == d[i] + k
             rest == WideAddFrom(d, s \div 256, i + 1)
         IN  [digits |-> <<s % 256>> \o rest.digits, overflow |-> rest.overflow]
WideAdd(d, k) == WideAddFrom(d, k, 1)

\* d - k in the width of d (k < 256): the wrapped digits and whether it underflowed
RECURSIVE WideSubFrom(_, _, _)
WideSubFrom(d, k, i) ==
    IF i > Len(d) THEN [digits |-> <<>>, overflow |-> k > 0]
    ELSE LET s == d[i] - k
             rest == WideSubFrom(d, IF s < 0 THEN 1 ELSE 0, i + 1)
         IN  [digits |-> <<(s + 256) % 256>> \o rest.digits, overflow |-> rest.overflow]
WideSub(d, k) == WideSubFrom(d, k, 1)

\* comparisons of a wide value d with a small natural n
WideLtNat(d, n) == WideIsSmall(d) /\ WideToNat(d) < n
WideGtNat(d, n) == ~WideIsSmall(d) \/ WideToNat(d) > n

\* bitwise operators on bytes
RECURSIVE BitAnd(_, _)
BitAnd(a, b) ==
    IF a = 0 \/ b = 0 THEN 0
    ELSE (a % 2) * (b % 2) + 2 * BitAnd(a \div 2, b \div 2)

RECURSIVE BitOr(_, _)
BitOr(a, b) ==
    IF a = 0 THEN b
    ELSE IF b = 0 THEN a
    ELSE (IF a % 2 = 1 \/ b % 2 = 1 THEN 1 ELSE 0) + 2 * BitOr(a \div 2, b \div 2)

RECURSIVE Pow2(_)
Pow2(n) == IF n = 0 THEN 1 ELSE 2 * Pow2(n - 1)

Shl8(a, n) == (a * Pow2(n)) % 256   \* u8 << n
Shr8(a, n) == a \div Pow2(n)        \* u8 >> n

----------------------------------------------------------------------------
(* binary/reverse_appendix.rs *)

\* Bounds of the binary codec's inputs
MaxBinCarrier == 2
MaxBinPayload == 2
MaxRawPrefix == 3

BinBytes == {1, 170}
BinCarriers ==
    SeqsUpTo(BinBytes, MaxBinCarrier)
    \cup {<<170, 187>>}
    \cup {[i \in 1..n |-> 16 + i] : n \in 7..10}
BinPayloads == SeqsUpTo(BinBytes, MaxBinPayload) \cup {<<1, 2>>}

\* encode that appends the length field and the payload without reversing them
BinaryReverseAppendixCodec_encode_unreversed(c, p) ==
    Ok(c \o to_le_bytes(Len(p) + 8, 8) \o p)

BinaryReverseAppendixCodec_encode(c, p) ==
    LET payload_len == to_le_bytes(Len(p) + 8, 8)
    IN  Ok(c \o Reverse(payload_len \o p))

BinaryReverseAppendixCodec_decode(encoded, checks) ==
    IF Len(encoded) < 8 THEN Err("DataNotEncoded")
    ELSE
      LET encoded_len == Len(encoded)
          \* encoded.iter().rev().take(8) read as a little-endian u64
          payload_len == [i \in 1..8 |-> encoded[encoded_len + 1 - i]]
          sum == WideAdd(payload_len, 8)
      IN  IF sum.overflow /\ checks THEN Panic("attempt to add with overflow")
          ELSE IF WideGtNat(sum.digits, encoded_len) \/ WideLtNat(payload_len, 8)
          THEN Err("DataNotEncoded")
          \* only reached when payload_len + 8 wrapped: encoded_len - payload_len
          \* wraps to more than encoded_len and the slice is out of range
          ELSE IF WideGtNat(payload_len, encoded_len)
          THEN Panic("range end index out of range for slice")
          ELSE
            LET n == WideToNat(payload_len)
                carrier_len == encoded_len - n
            IN  Ok(<<SubSeq(encoded, 1, carrier_len),
                     [i \in 1..(n - 8) |-> encoded[encoded_len - 8 + 1 - i]]>>)

\* Buffers handed to decode that encode did not produce: a prefix followed by
\* a reversed 8-byte length field, and buffers shorter than the field.
RawLowDigits == 0..16 \cup {247, 248, 255}
RawHighDigits == {0, 1, 255}
BinRawBuffers ==
    {pre \o Reverse(<<lo>> \o [i \in 1..7 |-> hi]) :
        pre \in {[i \in 1..n |-> 16 + i] : n \in 0..MaxRawPrefix} \cup {[i \in 1..n |-> 32 + i] : n \in 7..9},
        lo \in RawLowDigits, hi \in RawHighDigits}
    \cup {[i \in 1..n |-> 16 + i] : n \in 0..7}

----------------------------------------------------------------------------
(* jpeg/segment.rs *)

U16_MAX == 65535
SizeOfU16 == 2
SizeOfU64 == 8
COM == 254                              \* markers::COM
MaxChunk == U16_MAX - SizeOfU16         \* u16::MAX as usize - size_of::<u16>()
DefaultStartIndex == 3

\* Bounds of the JPEG codec's inputs
MaxJpegSegments == 3
MaxJpegPayload == 2
MaxStartIndex == 3

\* Jpeg::from_bytes of a carrier: its segment list, or a parse failure
Jpeg(segs) == [parses |-> TRUE, segments |-> segs]
NotJpeg == [parses |-> FALSE, segments |-> <<>>]

Segment(m, c) == [marker |-> m, contents |-> c]
CarrierSegments == {Segment(224, <<74, 70>>), Segment(219, <<1>>), Segment(COM, <<67>>)}
JpegCarriers == {Jpeg(segs) : segs \in SeqsUpTo(CarrierSegments, MaxJpegSegments)}
JpegBytes == {1, 2}
JpegPayloads == SeqsUpTo(JpegBytes, MaxJpegPayload)

\* Payloads around the chunking boundaries
BigPayload(n) == [i \in 1..n |-> i % 251]
JpegBigLengths == {MaxChunk - 9, MaxChunk - 8, MaxChunk - 7, 2 * MaxChunk - 8, 2 * MaxChunk + 1}
JpegBigPayloads == {BigPayload(n) : n \in JpegBigLengths}
JpegBigCarriers == {Jpeg(<<Segment(224, <<74, 70>>), Segment(219, <<1>>), Segment(COM, <<67>>)>>)}

\* a division that rounds down instead of up
div_floor(a, b) == a \div b

div_ceil(a, b) == (a + b - 1) \div b

\* slice.chunks(k): consecutive slices of k elements, the last one possibly shorter
RECURSIVE chunks(_, _)
chunks(s, k) ==
    IF Len(s) = 0 THEN <<>>
    ELSE IF Len(s) <= k THEN <<s>>
    ELSE <<SubSeq(s, 1, k)>> \o chunks(SubSeq(s, k + 1, Len(s)), k)

\* Vec::insert and Vec::remove with 0-based indices; both panic out of range
VecInsert(v, index, x) == SubSeq(v, 1, index) \o <<x>> \o SubSeq(v, index + 1, Len(v))

\* a removal that takes out the element after the one asked for
VecRemoveNext(v, index) == SubSeq(v, 1, index + 1) \o SubSeq(v, index + 3, Len(v))

VecRemove(v, index) == SubSeq(v, 1, index) \o SubSeq(v, index + 2, Len(v))

\* the for loop of encode: insert chunk number index at start + index
RECURSIVE InsertChunks(_, _, _, _)
InsertChunks(segments, cs, start, index) ==
    IF index >= Len(cs) THEN Ok(Jpeg(segments))
    ELSE IF start + index > Len(segments)
    THEN Panic("insertion index is out of bounds")
    ELSE InsertChunks(VecInsert(segments, start + index, Segment(COM, cs[index + 1])),
                      cs, start, index + 1)

\* Segment lists handed to decode that encode did not produce
MaxRawSegments == 2
RawSegments ==
    CarrierSegments
    \cup {Segment(COM, to_le_bytes(k, SizeOfU64) \o <<9>>) : k \in 0..3}
    \cup {Segment(COM, [i \in 1..SizeOfU64 |-> 255])}
RawJpegs == {Jpeg(segs) : segs \in SeqsUpTo(RawSegments, MaxRawSegments)} \cup {NotJpeg}

JpegSegmentCodec_encode(jpeg, p, start) ==
    IF ~jpeg.parses THEN Err("ParseFailed")
    ELSE
      LET segment_count == div_ceil(Len(p) + SizeOfU64, MaxChunk)
          payload_bytes == to_le_bytes(segment_count, SizeOfU64) \o p
      IN  InsertChunks(jpeg.segments, chunks(payload_bytes, MaxChunk), start, 0)

\* the for loop of decode: remove n more segments at start, appending their contents
RECURSIVE RemoveSegments(_, _, _, _)
RemoveSegments(segments, payload_vec, start, n) ==
    IF n = 0 THEN Ok(<<Jpeg(segments), payload_vec>>)
    ELSE IF start >= Len(segments)
    THEN Panic("removal index is out of bounds")
    ELSE RemoveSegments(VecRemove(segments, start),
                        payload_vec \o segments[start + 1].contents, start, n - 1)

JpegSegmentCodec_decode(jpeg, start, checks) ==
    IF ~jpeg.parses THEN Err("ParseFailed")
    ELSE IF start >= Len(jpeg.segments) THEN Panic("removal index is out of bounds")
    ELSE
      LET segment_bytes == jpeg.segments[start + 1].contents
          rest == VecRemove(jpeg.segments, start)
      IN  IF Len(segment_bytes) < SizeOfU64
          THEN Panic("range end index 8 out of range for slice")
          ELSE
            LET segment_count == SubSeq(segment_bytes, 1, SizeOfU64)
                payload_vec == SubSeq(segment_bytes, SizeOfU64 + 1, Len(segment_bytes))
            IN  \* a count of 2^24 or more: the capacity computation overflows or the
                \* allocation fails, or else the loop runs out of segments to remove
                IF ~WideIsSmall(segment_count)
                THEN Panic("capacity overflow or removal index is out of bounds")
                ELSE IF WideToNat(segment_count) = 0
                THEN \* segment_count - 1 underflows; wrapped, the loop runs off the list
                     IF checks THEN Panic("attempt to subtract with overflow")
                     ELSE Panic("removal index is out of bounds")
                ELSE RemoveSegments(rest, payload_vec, start, WideToNat(segment_count) - 1)

----------------------------------------------------------------------------
(* lossless/lsb.rs *)

\* Bounds of the image codec's inputs
MaxPixels == 3
MaxImgPayload == 3

\* ColorType of the carrier and its number of channels
ColorTypes == {"L8", "La8", "Rgb8", "Rgba8"}
ChannelCount(color) ==
    CASE color = "L8" -> 1 [] color = "La8" -> 2 [] color = "Rgb8" -> 3 [] color = "Rgba8" -> 4

Image(color, pixels) == [color |-> color, pixels |-> pixels]

\* pixels of a carrier: all channels 0, all channels 255, or mixed values
CarrierPixels(color) ==
    {[ch \in 1..ChannelCount(color) |-> 0],
     [ch \in 1..ChannelCount(color) |-> 255],
     [ch \in 1..ChannelCount(color) |-> (83 * ch + 6) % 256]}
ImgCarriers ==
    UNION {{Image(color, px) : px \in SeqsUpTo(CarrierPixels(color), MaxPixels)} :
           color \in ColorTypes}
ImgBytes == {0, 165, 255}
ImgPayloads == SeqsUpTo(ImgBytes, MaxImgPayload)
AllBytes == 0..255

\* the mask a channel receives when the shift direction is ignored
EncodeMaskRightOnly(payload_byte, bits_remaining) ==
    BitAnd(Shr8(payload_byte, IF bits_remaining < 0 THEN -bits_remaining ELSE bits_remaining), 7)

\* the 3 payload bits a channel receives (lines 102-105)
EncodeMask(payload_byte, bits_remaining) ==
    BitAnd(IF bits_remaining < 0 THEN Shl8(payload_byte, -bits_remaining)
           ELSE Shr8(payload_byte, bits_remaining), 7)

\* the for loop of encode_pixel from channel i on; remaining = bits_remaining
\* before the channel is visited
RECURSIVE EncodeChannels(_, _, _, _)
EncodeChannels(pixel, payload_byte, i, remaining) ==
    IF i > Len(pixel) THEN pixel
    ELSE
      LET cleared == [pixel EXCEPT ![i] = BitAnd(pixel[i], 248)]
          bits_remaining == remaining - 3
      IN  IF bits_remaining <= -3 THEN cleared
          ELSE EncodeChannels(
                   [cleared EXCEPT ![i] = BitOr(cleared[i], EncodeMask(payload_byte, bits_remaining))],
                   payload_byte, i + 1, bits_remaining)

\* an end-of-data marker put on the first channel instead of the last
SetMarkerFirst(pixel) == [pixel EXCEPT ![1] = BitOr(pixel[1], 1)]

\* *pixel.channels_mut().last_mut().unwrap() |= 1
SetMarker(pixel) == [pixel EXCEPT ![Len(pixel)] = BitOr(pixel[Len(pixel)], 1)]

encode_pixel(pixel, payload_byte, end_of_data) ==
    LET written == EncodeChannels(pixel, payload_byte, 1, 8)
    IN  IF end_of_data THEN SetMarker(written) ELSE written

\* the for loop of decode_pixel from channel i on: the pixel with the fields
\* it read cleared, and the byte accumulated
RECURSIVE DecodeChannels(_, _, _, _)
DecodeChannels(pixel, payload_byte, i, remaining) ==
    IF i > Len(pixel) THEN [pixel |-> pixel, byte |-> payload_byte]
    ELSE
      LET bits_remaining == remaining - 3
      IN  IF bits_remaining <= -3 THEN [pixel |-> pixel, byte |-> payload_byte]
          ELSE
            LET channel_bits == BitAnd(pixel[i], 7)
                mask == IF bits_remaining < 0 THEN Shr8(channel_bits, -bits_remaining)
                        ELSE Shl8(channel_bits, bits_remaining)
            IN  DecodeChannels([pixel EXCEPT ![i] = BitAnd(pixel[i], 248)],
                               BitOr(payload_byte, mask), i + 1, bits_remaining)

\* Option<u8> and the pixel as decode_pixel leaves it
decode_pixel(pixel) ==
    IF BitAnd(pixel[Len(pixel)], 1) = 1
    THEN [some |-> FALSE, byte |-> 0, pixel |-> pixel]
    ELSE LET r == DecodeChannels(pixel, 0, 1, 8)
         IN  [some |-> TRUE, byte |-> r.byte, pixel |-> r.pixel]

\* encode that matches on the pixel format before it checks the capacity
lossless_LsbCodec_encode_format_first(image, p) ==
    IF image.color \notin {"Rgba8", "Rgb8"} THEN Err("UnsupportedFormat")
    ELSE IF Len(image.pixels) < Len(p) THEN Err("PayloadTooBig")
    ELSE Ok(Image(image.color,
                  [i \in 1..Len(image.pixels) |->
                      IF i <= Len(p) THEN encode_pixel(image.pixels[i], p[i], FALSE)
                      ELSE encode_pixel(image.pixels[i], 0, TRUE)]))

lossless_LsbCodec_encode(image, p) ==
    IF Len(image.pixels) < Len(p) THEN Err("PayloadTooBig")
    ELSE IF image.color \in {"Rgba8", "Rgb8"}
    THEN Ok(Image(image.color,
                  [i \in 1..Len(image.pixels) |->
                      IF i <= Len(p) THEN encode_pixel(image.pixels[i], p[i], FALSE)
                      ELSE encode_pixel(image.pixels[i], 0, TRUE)]))
    ELSE Err("UnsupportedFormat")

\* the for loop of decode from pixel i on, until decode_pixel returns None
RECURSIVE DecodePixels(_, _, _)
DecodePixels(pixels, decoded, i) ==
    IF i > Len(pixels) THEN <<pixels, decoded>>
    ELSE LET r == decode_pixel(pixels[i])
         IN  IF r.some
             THEN DecodePixels([pixels EXCEPT ![i] = r.pixel], Append(decoded, r.byte), i + 1)
             ELSE <<pixels, decoded>>

lossless_LsbCodec_decode(image) ==
    IF image.color \in {"Rgba8", "Rgb8"}
    THEN LET r == DecodePixels(image.pixels, <<>>, 1)
         IN  Ok(<<Image(image.color, r[1]), r[2]>>)
    ELSE Err("UnsupportedFormat")

----------------------------------------------------------------------------
(* wav/lsb.rs *)

SizeOfU32 == 4
ChunkLen == 8           \* samples per payload byte: chunks(8)

\* Bounds of the WAV codec's inputs
MaxSamples == 50
MaxWavPayload == 2

\* hound::WavReader::new of a carrier: its spec and its samples, each sample
\* being its little-endian bytes, or a failure
Wav(format, bits, samples) ==
    [parses |-> TRUE, sample_format |-> format, bits_per_sample |-> bits, samples |-> samples]
NotWav == [parses |-> FALSE, sample_format |-> "Int", bits_per_sample |-> 16, samples |-> <<>>]

WavFormats == {<<"Int", 8>>, <<"Int", 16>>, <<"Int", 24>>, <<"Int", 32>>, <<"Float", 32>>}

\* sample number i of a carrier, as w bytes
SamplePatterns == {"zeros", "ones", "mixed"}
CarrierSample(pattern, i, w) ==
    [k \in 1..w |-> CASE pattern = "zeros" -> 0
                      [] pattern = "ones" -> 255
                      [] OTHER -> (i * 7 + k * 13 + (i \div 3)) % 256]
WavCarriers ==
    {Wav(f[1], f[2], [i \in 1..n |-> CarrierSample(pat, i, f[2] \div 8)]) :
        f \in WavFormats, n \in 0..MaxSamples, pat \in SamplePatterns}
WavBytes == {0, 165, 255}
WavPayloads == SeqsUpTo(WavBytes, MaxWavPayload)

\* the bit a sample would carry if the byte were spread least significant bit first
PayloadBitLsbFirst(payload_byte, i) == BitAnd(Shr8(payload_byte, i), 1)

\* the bit of payload_byte that sample i (0-based) of a group carries
PayloadBit(payload_byte, i) == BitAnd(Shr8(payload_byte, 7 - i), 1)

\* encode_byte: every sample of the chunk gets its bit in bit 0 of byte 1;
\* a sample of one byte has no byte 1
wav_encode_byte(payload_byte, sample_chunk) ==
    IF \E i \in 1..Len(sample_chunk) : Len(sample_chunk[i]) < 2
    THEN Panic("index out of bounds: the len is 1 but the index is 1")
    ELSE Ok([i \in 1..Len(sample_chunk) |->
               [sample_chunk[i] EXCEPT
                  ![2] = BitOr(BitAnd(sample_chunk[i][2], 254), PayloadBit(payload_byte, i - 1))]])

\* the for loop of encode over the chunks from number g (0-based) on;
\* stream is the length field followed by the payload
RECURSIVE WavEncodeChunks(_, _, _, _)
WavEncodeChunks(stream, sample_chunks, g, written) ==
    IF g >= Len(sample_chunks) THEN Ok(written)
    ELSE IF g < Len(stream)
    THEN LET r == wav_encode_byte(stream[g + 1], sample_chunks[g + 1])
         IN  IF IsPanic(r) THEN r
             ELSE WavEncodeChunks(stream, sample_chunks, g + 1, written \o r.value)
    ELSE WavEncodeChunks(stream, sample_chunks, g + 1, written \o sample_chunks[g + 1])

wav_encode(p, samples) ==
    LET payload_len == to_le_bytes(Len(p) + SizeOfU32, SizeOfU32)
    IN  WavEncodeChunks(payload_len \o p, chunks(samples, ChunkLen), 0, <<>>)

wav_LsbCodec_encode(wav, p) ==
    IF ~wav.parses THEN Err("DataInvalid")
    ELSE IF wav.sample_format = "Int" /\ wav.bits_per_sample \notin {8, 16, 32}
    THEN Err("DataInvalid")
    ELSE LET r == wav_encode(p, wav.samples)
         IN  IF IsPanic(r) THEN r
             ELSE Ok(Wav(wav.sample_format, wav.bits_per_sample, r.value))

\* the byte rebuilt from a chunk of samples: bit 0 of byte 1 of sample i
\* (0-based) becomes bit 7 - i
RECURSIVE ChunkByte(_, _)
ChunkByte(sample_chunk, i) ==
    IF i >= Len(sample_chunk) THEN 0
    ELSE BitOr(Shl8(BitAnd(sample_chunk[i + 1][2], 1), 7 - i), ChunkByte(sample_chunk, i + 1))

\* the second for loop of decode: push one byte per chunk, and stop once the
\* number of bytes pushed has reached payload_length
RECURSIVE WavDecodeChunks(_, _, _, _)
WavDecodeChunks(sample_chunks, g, decoded, payload_length) ==
    IF g >= Len(sample_chunks) THEN decoded
    ELSE LET pushed == Append(decoded, ChunkByte(sample_chunks[g + 1], 0))
         IN  IF Len(pushed) >= payload_length THEN pushed
             ELSE WavDecodeChunks(sample_chunks, g + 1, pushed, payload_length)

wav_decode(samples, checks) ==
    IF \E i \in 1..Len(samples) : Len(samples[i]) < 2
    THEN Panic("index out of bounds: the len is 1 but the index is 1")
    ELSE
      LET \* reader.samples().take(8 * 4) leaves the later samples unread
          taken == Min(Len(samples), ChunkLen * SizeOfU32)
          header == chunks(SubSeq(samples, 1, taken), ChunkLen)
          length_bytes == [i \in 1..SizeOfU32 |->
                              IF i <= Len(header) THEN ChunkByte(header[i], 0) ELSE 0]
          \* u32::from_le_bytes(length_bytes) as usize - size_of::<u32>()
          diff == WideSub(length_bytes \o <<0, 0, 0, 0>>, SizeOfU32)
          rest == SubSeq(samples, taken + 1, Len(samples))
      IN  IF diff.overflow /\ checks THEN Panic("attempt to subtract with overflow")
          ELSE IF WideGtNat(diff.digits, Len(rest)) THEN Err("DataNotEncoded")
          ELSE Ok(WavDecodeChunks(chunks(rest, ChunkLen), 0, <<>>, WideToNat(diff.digits)))

wav_LsbCodec_decode(wav, checks) ==
    IF ~wav.parses THEN Err("DataInvalid")
    ELSE IF wav.sample_format = "Int" /\ wav.bits_per_sample \notin {8, 16, 32}
    THEN Err("DataNotEncoded")
    ELSE LET r == wav_decode(wav.samples, checks)
         IN  IF IsOk(r) THEN Ok(<<wav, r.value>>) ELSE r

----------------------------------------------------------------------------
(* The caller *)

Init ==
    /\ pc = "idle"
    /\ codec = "none"
    /\ overflow_checks \in BOOLEAN
    /\ start_index = DefaultStartIndex
    /\ carrier = None
    /\ payload = None
    /\ encode_result = None
    /\ decode_input = None
    /\ decode_result = None

BinEncode ==
    /\ pc = "idle"
    /\ \E c \in BinCarriers, p \in BinPayloads :
        /\ carrier' = c
        /\ payload' = p
        /\ encode_result' = BinaryReverseAppendixCodec_encode(c, p)
    /\ codec' = "bin"
    /\ pc' = "encoded"
    /\ UNCHANGED <<overflow_checks, start_index, decode_input, decode_result>>

BinDecode ==
    /\ pc = "encoded"
    /\ codec = "bin"
    /\ IsOk(encode_result)
    /\ decode_input' = encode_result.value
    /\ decode_result' = BinaryReverseAppendixCodec_decode(encode_result.value, overflow_checks)
    /\ pc' = "decoded"
    /\ UNCHANGED <<codec, overflow_checks, start_index, carrier, payload, encode_result>>

BinDecodeRaw ==
    /\ pc = "idle"
    /\ \E buf \in BinRawBuffers :
        /\ decode_input' = buf
        /\ decode_result' = BinaryReverseAppendixCodec_decode(buf, overflow_checks)
    /\ codec' = "bin"
    /\ pc' = "decoded_raw"
    /\ UNCHANGED <<overflow_checks, start_index, carrier, payload, encode_result>>

BinNext == BinEncode \/ BinDecode \/ BinDecodeRaw

SpecBin == Init /\ [][BinNext]_vars

JpegEncode ==
    /\ pc = "idle"
    /\ \E si \in 0..MaxStartIndex :
        /\ start_index' = si
        /\ \/ \E c \in JpegCarriers \cup {NotJpeg}, p \in JpegPayloads :
                /\ carrier' = c
                /\ payload' = p
                /\ encode_result' = JpegSegmentCodec_encode(c, p, si)
           \/ \E c \in JpegBigCarriers, p \in JpegBigPayloads :
                /\ si \in {1, DefaultStartIndex}
                /\ carrier' = c
                /\ payload' = p
                /\ encode_result' = JpegSegmentCodec_encode(c, p, si)
    /\ codec' = "jpeg"
    /\ pc' = "encoded"
    /\ UNCHANGED <<overflow_checks, decode_input, decode_result>>

JpegDecode ==
    /\ pc = "encoded"
    /\ codec = "jpeg"
    /\ IsOk(encode_result)
    /\ decode_input' = encode_result.value
    /\ decode_result' = JpegSegmentCodec_decode(encode_result.value, start_index, overflow_checks)
    /\ pc' = "decoded"
    /\ UNCHANGED <<codec, overflow_checks, start_index, carrier, payload, encode_result>>

JpegDecodeRaw ==
    /\ pc = "idle"
    /\ \E si \in 0..MaxStartIndex, j \in RawJpegs :
        /\ start_index' = si
        /\ decode_input' = j
        /\ decode_result' = JpegSegmentCodec_decode(j, si, overflow_checks)
    /\ codec' = "jpeg"
    /\ pc' = "decoded_raw"
    /\ UNCHANGED <<overflow_checks, carrier, payload, encode_result>>

JpegNext == JpegEncode \/ JpegDecode \/ JpegDecodeRaw

SpecJpeg == Init /\ [][JpegNext]_vars

ImgEncode ==
    /\ pc = "idle"
    /\ \/ \E c \in ImgCarriers, p \in ImgPayloads :
            /\ carrier' = c
            /\ payload' = p
            /\ encode_result' = lossless_LsbCodec_encode(c, p)
       \/ \E c \in ImgCarriers, b \in AllBytes :
            /\ Len(c.pixels) \in 1..2
            /\ carrier' = c
            /\ payload' = <<b>>
            /\ encode_result' = lossless_LsbCodec_encode(c, <<b>>)
    /\ codec' = "image"
    /\ pc' = "encoded"
    /\ UNCHANGED <<overflow_checks, start_index, decode_input, decode_result>>

ImgDecode ==
    /\ pc = "encoded"
    /\ codec = "image"
    /\ IsOk(encode_result)
    /\ decode_input' = encode_result.value
    /\ decode_result' = lossless_LsbCodec_decode(encode_result.value)
    /\ pc' = "decoded"
    /\ UNCHANGED <<codec, overflow_checks, start_index, carrier, payload, encode_result>>

ImgDecodeRaw ==
    /\ pc = "idle"
    /\ \E c \in ImgCarriers :
        /\ decode_input' = c
        /\ decode_result' = lossless_LsbCodec_decode(c)
    /\ codec' = "image"
    /\ pc' = "decoded_raw"
    /\ UNCHANGED <<overflow_checks, start_index, carrier, payload, encode_result>>

ImgNext == ImgEncode \/ ImgDecode \/ ImgDecodeRaw

SpecImg == Init /\ [][ImgNext]_vars

WavEncode ==
    /\ pc = "idle"
    /\ \E c \in WavCarriers \cup {NotWav}, p \in WavPayloads :
        /\ carrier' = c
        /\ payload' = p
        /\ encode_result' = wav_LsbCodec_encode(c, p)
    /\ codec' = "wav"
    /\ pc' = "encoded"
    /\ UNCHANGED <<overflow_checks, start_index, decode_input, decode_result>>

WavDecode ==
    /\ pc = "encoded"
    /\ codec = "wav"
    /\ IsOk(encode_result)
    /\ decode_input' = encode_result.value
    /\ decode_result' = wav_LsbCodec_decode(encode_result.value, overflow_checks)
    /\ pc' = "decoded"
    /\ UNCHANGED <<codec, overflow_checks, start_index, carrier, payload, encode_result>>

WavDecodeRaw ==
    /\ pc = "idle"
    /\ \E c \in WavCarriers \cup {NotWav} :
        /\ decode_input' = c
        /\ decode_result' = wav_LsbCodec_decode(c, overflow_checks)
    /\ codec' = "wav"
    /\ pc' = "decoded_raw"
    /\ UNCHANGED <<overflow_checks, start_index, carrier, payload, encode_result>>

WavNext == WavEncode \/ WavDecode \/ WavDecodeRaw

SpecWav == Init /\ [][WavNext]_vars

Next == BinNext \/ JpegNext \/ ImgNext \/ WavNext

Spec == Init /\ [][Next]_vars

----------------------------------------------------------------------------
(* Claims about binary/reverse_appendix.rs *)

\* C1: for every carrier (also the empty one and those shorter than 8 bytes)
\* and every payload, decode(encode(carrier, payload)) succeeds and returns
\* exactly (carrier, payload).
C1_BinRoundTrip ==
    (codec = "bin" /\ pc = "decoded") =>
        decode_result = Ok(<<carrier, payload>>)

\* The trailing 8 bytes of a buffer, read backward, as a little-endian value
TrailerOf(buf) == [i \in 1..8 |-> buf[Len(buf) + 1 - i]]

\* C2: encode never fails and returns carrier ++ reverse(LE8(len(p)+8) ++ p):
\* the output is len(c)+len(p)+8 bytes long, starts with the carrier, its last
\* 8 bytes read backward are the little-endian len(p)+8, and the len(p) bytes
\* before them read backward are the payload in its original order.
C2_BinEncodeLayout ==
    (codec = "bin" /\ pc \in {"encoded", "decoded"}) =>
        /\ IsOk(encode_result)
        /\ LET out == encode_result.value
               n == Len(out)
           IN  /\ n = Len(carrier) + Len(payload) + 8
               /\ SubSeq(out, 1, Len(carrier)) = carrier
               /\ WideIsSmall(TrailerOf(out))
               /\ WideToNat(TrailerOf(out)) = Len(payload) + 8
               /\ \A i \in 1..Len(payload) : out[n - 8 + 1 - i] = payload[i]

C2_Witness ==
    /\ codec = "bin"
    /\ pc = "encoded"
    /\ carrier = <<170, 187>>
    /\ payload = <<1, 2>>
    /\ encode_result = Ok(<<170, 187, 2, 1, 0, 0, 0, 0, 0, 0, 0, 10>>)

\* C3: decode is total and accepts exactly as documented: NotEncoded when the
\* buffer has fewer than 8 bytes, when trailer_len < 8 or when
\* encoded.len() < trailer_len; otherwise Ok with the carrier being the first
\* encoded.len() - trailer_len bytes and a payload of trailer_len - 8 bytes.
\* It never panics.
C3_BinDecodeAcceptance ==
    (codec = "bin" /\ pc \in {"decoded", "decoded_raw"}) =>
        LET n == Len(decode_input)
        IN  IF n < 8 THEN decode_result = Err("DataNotEncoded")
            ELSE IF WideLtNat(TrailerOf(decode_input), 8)
                    \/ WideGtNat(TrailerOf(decode_input), n)
            THEN decode_result = Err("DataNotEncoded")
            ELSE /\ IsOk(decode_result)
                 /\ decode_result.value[1]
                      = SubSeq(decode_input, 1, n - WideToNat(TrailerOf(decode_input)))
                 /\ Len(decode_result.value[2]) = WideToNat(TrailerOf(decode_input)) - 8

----------------------------------------------------------------------------
(* Claims about jpeg/segment.rs *)

\* C4: for every carrier with at least start_index segments and every payload
\* (also the empty one), encode succeeds and decode(encode(carrier, payload))
\* with the same start_index returns the payload bytes in their original order
\* and a segment list equal to the carrier's.
C4_JpegRoundTrip ==
    /\ (codec = "jpeg" /\ pc \in {"encoded", "decoded"} /\ carrier.parses
          /\ Len(carrier.segments) >= start_index) => IsOk(encode_result)
    /\ (codec = "jpeg" /\ pc = "decoded") =>
          decode_result = Ok(<<carrier, payload>>)

C4_Witness ==
    /\ codec = "jpeg"
    /\ pc = "decoded"
    /\ start_index = 1
    /\ Len(carrier.segments) = 3
    /\ payload = <<1, 2>>
    /\ Len(decode_input.segments) = 4
    /\ decode_result = Ok(<<carrier, payload>>)

RECURSIVE Flatten(_)
Flatten(ss) == IF Len(ss) = 0 THEN <<>> ELSE Head(ss) \o Flatten(Tail(ss))

\* C5: for a payload of n bytes encode inserts exactly ceil((n+8)/65533) COM
\* segments, contiguously from start_index on and in chunk order, each of at
\* most 65533 content bytes; the 8-byte little-endian count that opens the
\* first of them is the number of segments inserted.  A payload of 65533*2+1
\* bytes gives 3 segments, one of 65533-8 bytes gives 1.
C5_JpegChunking ==
    (codec = "jpeg" /\ pc \in {"encoded", "decoded"} /\ IsOk(encode_result)) =>
        LET before == carrier.segments
            out == encode_result.value.segments
            k == Len(out) - Len(before)
            n == Len(payload)
            inserted == SubSeq(out, start_index + 1, start_index + k)
        IN  /\ k >= 1
            /\ k * 65533 >= n + 8
            /\ (k - 1) * 65533 < n + 8
            /\ SubSeq(out, 1, start_index) = SubSeq(before, 1, start_index)
            /\ SubSeq(out, start_index + k + 1, Len(out))
                 = SubSeq(before, start_index + 1, Len(before))
            /\ \A i \in 1..k : /\ inserted[i].marker = COM
                               /\ Len(inserted[i].contents) <= 65533
            /\ Flatten([i \in 1..k |-> inserted[i].contents]) = to_le_bytes(k, 8) \o payload
            /\ (n = 65533 * 2 + 1 => k = 3)
            /\ (n = 65533 - 8 => k = 1)

C5_Witness ==
    /\ codec = "jpeg"
    /\ pc = "encoded"
    /\ start_index = DefaultStartIndex
    /\ Len(carrier.segments) = 3
    /\ payload = <<1, 2>>
    /\ IsOk(encode_result)
    /\ Len(encode_result.value.segments) = 4
    /\ encode_result.value.segments[4] = Segment(COM, <<1, 0, 0, 0, 0, 0, 0, 0, 1, 2>>)

----------------------------------------------------------------------------
(* Claims about lossless/lsb.rs *)

\* C6: for every RGB8 or RGBA8 image of N pixels and every payload of at most
\* N bytes (also 0 bytes, and N bytes where no marker pixel is left), encode
\* succeeds and decode(encode(image, p)) returns a payload equal to p, for
\* every byte value 0..255.
C6_ImgRoundTrip ==
    /\ (codec = "image" /\ pc \in {"encoded", "decoded"}
          /\ carrier.color \in {"Rgb8", "Rgba8"}
          /\ Len(payload) <= Len(carrier.pixels)) => IsOk(encode_result)
    /\ (codec = "image" /\ pc = "decoded") =>
          /\ IsOk(decode_result)
          /\ decode_result.value[2] = payload

C6_Witness ==
    /\ codec = "image"
    /\ pc = "decoded"
    /\ carrier.color = "Rgb8"
    /\ Len(carrier.pixels) = 2
    /\ payload = <<165, 255>>
    /\ IsOk(decode_result)
    /\ decode_result.value[2] = <<165, 255>>

\* C7: after encode on an RGB8 or RGBA8 image every pixel that carries a
\* payload byte has bit 0 of its last channel clear, and every later pixel has
\* that bit set and all its other low-3-bit fields zero; decode returns exactly
\* len(p) bytes, so a marker pixel is never read as data.
C7_ImgEndMarker ==
    (codec = "image" /\ pc \in {"encoded", "decoded"} /\ IsOk(encode_result)) =>
        /\ \A i \in 1..Len(encode_result.value.pixels) :
             LET pixel == encode_result.value.pixels[i]
                 last == pixel[Len(pixel)]
             IN  IF i <= Len(payload) THEN last % 2 = 0
                 ELSE /\ last % 8 = 1
                      /\ \A ch \in 1..(Len(pixel) - 1) : pixel[ch] % 8 = 0
        /\ pc = "decoded" =>
             /\ IsOk(decode_result)
             /\ Len(decode_result.value[2]) = Len(payload)

C7_Witness ==
    /\ codec = "image"
    /\ pc = "decoded"
    /\ carrier.color = "Rgba8"
    /\ Len(carrier.pixels) = 3
    /\ payload = <<255, 255>>
    /\ carrier.pixels[3] = <<89, 172, 255, 82>>
    /\ encode_result.value.pixels[2] = <<7, 7, 6, 0>>
    /\ encode_result.value.pixels[3] = <<88, 168, 248, 81>>
    /\ IsOk(decode_result)
    /\ Len(decode_result.value[2]) = 2

----------------------------------------------------------------------------
(* Claims about wav/lsb.rs *)

\* the carrier holds 16-bit PCM, 32-bit PCM or 32-bit float samples
WideSampleFormat(wav) ==
    /\ wav.parses
    /\ \/ wav.sample_format = "Float"
       \/ wav.sample_format = "Int" /\ wav.bits_per_sample \in {16, 32}

\* the carrier has a group of 8 samples for every byte of header and payload
EnoughSamples(wav, p) == Len(wav.samples) >= 8 * (Len(p) + 4)

\* C8: for every 16-bit PCM, 32-bit PCM or 32-bit float carrier with at least
\* 8*(len(p)+4) samples and every payload p (also the empty one),
\* decode(encode(carrier, p)) returns a payload equal to p.
C8_WavRoundTrip ==
    (codec = "wav" /\ pc = "decoded" /\ WideSampleFormat(carrier)
       /\ EnoughSamples(carrier, payload)) =>
        /\ IsOk(decode_result)
        /\ decode_result.value[2] = payload

\* C9: when the carrier has fewer than 8*(len(payload)+4) samples, encode
\* returns an error instead of an Ok output that carries only a prefix of the
\* header and payload stream.
C9_WavEncodeRejectsShortCarrier ==
    (codec = "wav" /\ pc \in {"encoded", "decoded"} /\ carrier.parses
       /\ ~EnoughSamples(carrier, payload)) =>
        IsErr(encode_result)

\* C10: on an 8-bit PCM carrier with enough samples encode and decode complete
\* without panicking and the payload round-trips.
C10_Wav8BitSupported ==
    (codec = "wav" /\ pc \in {"encoded", "decoded"} /\ carrier.parses
       /\ carrier.sample_format = "Int" /\ carrier.bits_per_sample = 8
       /\ EnoughSamples(carrier, payload)) =>
        /\ IsOk(encode_result)
        /\ pc = "decoded" =>
             /\ IsOk(decode_result)
             /\ decode_result.value[2] = payload

----------------------------------------------------------------------------
(* Claims about decoding input that encode never produced *)

\* the length field a WAV's first 32 samples spell, as a little-endian value
WavHeaderOf(samples) ==
    LET header == chunks(SubSeq(samples, 1, 32), 8)
    IN  [i \in 1..4 |-> ChunkByte(header[i], 0)]

\* A buffer no call of BinaryReverseAppendixCodec.encode returns: it is too
\* short for the length field, or the field is below 8 or beyond the buffer.
BinNeverEncoded(buf) ==
    \/ Len(buf) < 8
    \/ WideLtNat(TrailerOf(buf), 8)
    \/ WideGtNat(TrailerOf(buf), Len(buf))

\* A segment list no call of JpegSegmentCodec.encode with this start_index
\* returns: no segment at start_index, or one that is no COM segment, or
\* shorter than the count field, or with a count of 0.
JpegNeverEncoded(jpeg, si) ==
    /\ jpeg.parses
    /\ \/ Len(jpeg.segments) <= si
       \/ jpeg.segments[si + 1].marker # COM
       \/ Len(jpeg.segments[si + 1].contents) < 8
       \/ LET count == SubSeq(jpeg.segments[si + 1].contents, 1, 8)
          IN  WideIsSmall(count) /\ WideToNat(count) = 0

\* An RGB8/RGBA8 image no call of the image LsbCodec.encode returns: some
\* pixel has the end marker set but low-3-bit fields other than 0,..,0,1.
ImgNeverEncoded(image) ==
    /\ image.color \in {"Rgb8", "Rgba8"}
    /\ \E i \in 1..Len(image.pixels) :
         LET pixel == image.pixels[i]
         IN  /\ pixel[Len(pixel)] % 2 = 1
             /\ \/ pixel[Len(pixel)] % 8 # 1
                \/ \E ch \in 1..(Len(pixel) - 1) : pixel[ch] % 8 # 0

\* A WAV no call of the WAV LsbCodec.encode returns: 8-bit samples (encode
\* panics on them), or 32 samples or more whose length field is below 4.
WavNeverEncoded(wav) ==
    /\ wav.parses
    /\ \/ /\ wav.sample_format = "Int" /\ wav.bits_per_sample = 8
          /\ Len(wav.samples) >= 1
       \/ /\ WideSampleFormat(wav)
          /\ Len(wav.samples) >= 32
          /\ WideLtNat(WavHeaderOf(wav.samples), 4)

NeverEncoded ==
    CASE codec = "bin" -> BinNeverEncoded(decode_input)
      [] codec = "jpeg" -> JpegNeverEncoded(decode_input, start_index)
      [] codec = "image" -> ImgNeverEncoded(decode_input)
      [] codec = "wav" -> WavNeverEncoded(decode_input)
      [] OTHER -> FALSE

\* C11: for each of the four codecs, decoding a format-valid carrier that the
\* codec's encode never produced returns an error (NotEncoded or Invalid); it
\* never returns Ok with a payload and never panics.
C11_DecodeOfNeverEncoded ==
    (pc = "decoded_raw" /\ NeverEncoded) => IsErr(decode_result)

----------------------------------------------------------------------------
(* Claims about the image codec's rejections *)

SupportedColor(image) == image.color \in {"Rgb8", "Rgba8"}

\* C12 as stated: encode with len(payload) > pixel count returns PayloadTooBig,
\* encode or decode on any pixel format other than RGB8/RGBA8 returns
\* UnsupportedFormat, encode with len(payload) <= pixel count on RGB8/RGBA8
\* succeeds, and nothing panics.
C12_ImgRejections_AsStated ==
    /\ (codec = "image" /\ pc \in {"encoded", "decoded"}) =>
          /\ Len(payload) > Len(carrier.pixels) => encode_result = Err("PayloadTooBig")
          /\ ~SupportedColor(carrier) => encode_result = Err("UnsupportedFormat")
          /\ (SupportedColor(carrier) /\ Len(payload) <= Len(carrier.pixels)) =>
                IsOk(encode_result)
    /\ (codec = "image" /\ pc \in {"decoded", "decoded_raw"}) =>
          /\ ~SupportedColor(decode_input) => decode_result = Err("UnsupportedFormat")
          /\ ~IsPanic(decode_result)

\* C12 (amended): encode with len(payload) > pixel count returns PayloadTooBig
\* whatever the pixel format; encode with len(payload) <= pixel count on a
\* format other than RGB8/RGBA8 returns UnsupportedFormat, and on RGB8/RGBA8
\* succeeds; decode on a format other than RGB8/RGBA8 returns
\* UnsupportedFormat; nothing panics.
C12_ImgRejections ==
    /\ (codec = "image" /\ pc \in {"encoded", "decoded"}) =>
          /\ Len(payload) > Len(carrier.pixels) => encode_result = Err("PayloadTooBig")
          /\ (~SupportedColor(carrier) /\ Len(payload) <= Len(carrier.pixels)) =>
                encode_result = Err("UnsupportedFormat")
          /\ (SupportedColor(carrier) /\ Len(payload) <= Len(carrier.pixels)) =>
                IsOk(encode_result)
    /\ (codec = "image" /\ pc \in {"decoded", "decoded_raw"}) =>
          /\ ~SupportedColor(decode_input) => decode_result = Err("UnsupportedFormat")
          /\ ~IsPanic(decode_result)

C12_Witness ==
    /\ codec = "image"
    /\ pc = "encoded"
    /\ carrier.color = "L8"
    /\ Len(carrier.pixels) = 1
    /\ Len(payload) = 2
    /\ encode_result = Err("PayloadTooBig")

----------------------------------------------------------------------------
(* Claims about the WAV codec's framing *)

\* C13: for every 16/32-bit input with at least 32 samples decode returns
\* either NotEncoded or a payload of exactly the declared length (the header
\* rebuilt from the first 32 samples, minus 4); it returns NotEncoded when the
\* header is below 4 or the samples after the header are fewer than 8 per
\* declared payload byte; it never returns a shorter or longer payload.
C13_WavDecodeLength ==
    (codec = "wav" /\ pc \in {"decoded", "decoded_raw"}
       /\ WideSampleFormat(decode_input) /\ Len(decode_input.samples) >= 32) =>
        LET header == WavHeaderOf(decode_input.samples)
            remaining == Len(decode_input.samples) - 32
        IN  /\ \/ decode_result = Err("DataNotEncoded")
               \/ /\ IsOk(decode_result)
                  /\ WideIsSmall(header)
                  /\ Len(decode_result.value[2]) = WideToNat(header) - 4
            /\ (WideLtNat(header, 4) \/ WideGtNat(header, 4 + remaining \div 8)) =>
                  decode_result = Err("DataNotEncoded")

\* bit number b (0 = least significant) of a byte
BitOf(byte, b) == (byte \div Pow2(b)) % 2

\* C14: for a 16/32-bit carrier with at least 8*(len(p)+4) samples the output
\* has as many samples as the carrier; for group i < len(p)+4 and j in 0..7,
\* sample 8*i+j has bit 0 of byte 1 of its little-endian representation equal
\* to bit 7-j of byte i of LE4(len(p)+4) ++ p and every other bit equal to the
\* carrier's; every sample from index 8*(len(p)+4) on is identical to the
\* carrier's.
C14_WavEncodeFrame ==
    (codec = "wav" /\ pc \in {"encoded", "decoded"} /\ WideSampleFormat(carrier)
       /\ EnoughSamples(carrier, payload)) =>
        /\ IsOk(encode_result)
        /\ LET out == encode_result.value.samples
               src == carrier.samples
               stream == to_le_bytes(Len(payload) + 4, 4) \o payload
           IN  /\ Len(out) = Len(src)
               /\ \A i \in 0..(Len(stream) - 1), j \in 0..7 :
                    LET o == out[8 * i + j + 1]
                        c == src[8 * i + j + 1]
                    IN  /\ Len(o) = Len(c)
                        /\ o[2] % 2 = BitOf(stream[i + 1], 7 - j)
                        /\ o[2] \div 2 = c[2] \div 2
                        /\ \A k \in (1..Len(c)) \ {2} : o[k] = c[k]
               /\ \A n \in (8 * Len(stream) + 1)..Len(src) : out[n] = src[n]

C14_Witness ==
    /\ codec = "wav"
    /\ pc = "encoded"
    /\ carrier.sample_format = "Int"
    /\ carrier.bits_per_sample = 16
    /\ Len(carrier.samples) = 50
    /\ carrier.samples[33] = <<255, 255>>
    /\ payload = <<165, 0>>
    /\ IsOk(encode_result)
    /\ SubSeq(encode_result.value.samples, 1, 8)
         = <<<<255, 254>>, <<255, 254>>, <<255, 254>>, <<255, 254>>,
             <<255, 254>>, <<255, 255>>, <<255, 255>>, <<255, 254>>>>
    /\ encode_result.value.samples[33] = <<255, 255>>
    /\ encode_result.value.samples[34] = <<255, 254>>
    /\ encode_result.value.samples[49] = <<255, 255>>

====
